---- MODULE Spec2Model ----
(***************************************************************************)
(* A model of scripts/analyze_gospels.py (class GospelAnalyzer).           *)
(*                                                                         *)
(* Texts are sequences of characters, a character being its Unicode code   *)
(* point, so that the reading of a file, str.find, slices, str.split,      *)
(* str.lower and the two regular expressions of the script are computed    *)
(* character by character, as Python computes them.                        *)
(***************************************************************************)
EXTENDS Integers, Sequences, FiniteSets, TLC

VARIABLES
    pc,              \* the position of the running operation
    text,            \* the text an operation is given
    trimmed,         \* load_gospel: text after lines 53-56
    clean_text,      \* load_gospel: the returned text
    words,           \* tokenize_and_clean: words, the unfiltered tokens
    filtered_words,  \* tokenize_and_clean: the returned tokens
    style_metrics,   \* the record calculate_style_metrics returns
    n,               \* get_top_words: its parameter n
    top_words,       \* the list get_top_words returns
    results,         \* self.results
    overlap_data,    \* the list find_overlapping_words returns
    overlap_rerun,   \* the same list, from a second run on the same input
    files,           \* the three input files on disk
    dir_created,     \* save_results: the output directory exists
    file_created,    \* save_results: the output file has been opened for writing
    report           \* the documents written to the output file

vars == <<pc, text, trimmed, clean_text, words, filtered_words, style_metrics,
          n, top_words, results, overlap_data, overlap_rerun, files,
          dir_created, file_created, report>>

\* The value of a variable the running operation has not assigned yet.
None == "None"

----------------------------------------------------------------------------
(* Generic helpers: Python's built-in sequence operations.                 *)

MinOf(S) == CHOOSE x \in S : \A y \in S : x <= y

MaxOf(S) == CHOOSE x \in S : \A y \in S : x >= y

\* s + t for every s in a set of sequences and every piece t.
RECURSIVE ConcatAll(_)
ConcatAll(ps) == IF ps = <<>> THEN <<>> ELSE Head(ps) \o ConcatAll(Tail(ps))

\* All sequences over S of length 0..k.
SeqsUpTo(S, k) == UNION {[1..m -> S] : m \in 0..k}

\* c lies in one of the ranges <<first, last, ...>> of R.
InRanges(c, R) == \E r \in R : r[1] <= c /\ c <= r[2]

\* The ranges of R within ASCII.
AsciiRanges(R) == {r \in R : r[2] < 128}

\* The characters that the literals of the script and the modelled texts
\* are written with.
LowerCase == <<"a", "b", "c", "d", "e", "f", "g", "h", "i", "j", "k", "l", "m",
               "n", "o", "p", "q", "r", "s", "t", "u", "v", "w", "x", "y", "z">>
UpperCase == <<"A", "B", "C", "D", "E", "F", "G", "H", "I", "J", "K", "L", "M",
               "N", "O", "P", "Q", "R", "S", "T", "U", "V", "W", "X", "Y", "Z">>
DigitChars == <<"0", "1", "2", "3", "4", "5", "6", "7", "8", "9">>

\* ord(c), the code point of a character.
Ord(c) ==
    IF \E i \in DOMAIN LowerCase : LowerCase[i] = c
    THEN 96 + (CHOOSE i \in DOMAIN LowerCase : LowerCase[i] = c)
    ELSE IF \E i \in DOMAIN UpperCase : UpperCase[i] = c
    THEN 64 + (CHOOSE i \in DOMAIN UpperCase : UpperCase[i] = c)
    ELSE IF \E i \in DOMAIN DigitChars : DigitChars[i] = c
    THEN 47 + (CHOOSE i \in DOMAIN DigitChars : DigitChars[i] = c)
    ELSE CASE c = "\n" -> 10
           [] c = "\r" -> 13
           [] c = " "  -> 32
           [] c = "*"  -> 42
           [] c = "."  -> 46
           [] c = ":"  -> 58
           [] c = "_"  -> 95

\* The text of a literal: the code points of its characters.
Str(s) == [i \in DOMAIN s |-> Ord(s[i])]

Newline        == 10      \* "\n"
CarriageReturn == 13      \* "\r"
Colon          == 58      \* ":"
ByteOrderMark  == 65279   \* U+FEFF, the signature of utf-8-sig
Kelvin         == 8490    \* U+212A KELVIN SIGN; its lower() is the letter k
CapitalIDot    == 304     \* U+0130 LATIN CAPITAL LETTER I WITH DOT ABOVE
SmallI         == 105     \* the letter i
CombiningDot   == 775     \* U+0307 COMBINING DOT ABOVE, a mark, not a letter
CapitalSigma   == 931     \* U+03A3 GREEK CAPITAL LETTER SIGMA
FinalSigma     == 962     \* U+03C2 GREEK SMALL LETTER FINAL SIGMA
SmallSigma     == 963     \* U+03C3 GREEK SMALL LETTER SIGMA
ArabicThree    == 1635    \* U+0663 ARABIC-INDIC DIGIT THREE, a decimal digit

\* str.find(marker): the 0-based offset of the first occurrence, or -1.
Find(t, m) ==
    LET cands == {i \in 0..(Len(t) - Len(m)) : SubSeq(t, i + 1, i + Len(m)) = m}
    IN  IF cands = {} THEN -1 ELSE MinOf(cands)

\* t[i:] for i >= 0.
SliceFrom(t, i) == SubSeq(t, i + 1, Len(t))

\* t[:j] for j >= 0.
SliceTo(t, j) == SubSeq(t, 1, IF j < Len(t) THEN j ELSE Len(t))

\* t.split('\n'): the list of lines (always at least one, possibly empty).
RECURSIVE Split(_)
Split(t) ==
    LET nl == Find(t, <<Newline>>)
    IN  IF nl = -1 THEN <<t>>
        ELSE <<SliceTo(t, nl)>> \o Split(SliceFrom(t, nl + 1))

\* '\n'.join(lines).
RECURSIVE Join(_)
Join(lines) ==
    IF lines = <<>> THEN <<>>
    ELSE IF Len(lines) = 1 THEN lines[1]
    ELSE lines[1] \o <<Newline>> \o Join(Tail(lines))

----------------------------------------------------------------------------
(* The character classes and the case mapping of Python 3.11 (Unicode      *)
(* 14.0), as tables of code point ranges.                                  *)

\* The class \d of the re module on str (lines 64 and 94): the ranges
\* <<first, last>> of the code points of the decimal digits of every script.
DigitRanges ==
    {<<48, 57>>, <<1632, 1641>>, <<1776, 1785>>, <<1984, 1993>>,
     <<2406, 2415>>, <<2534, 2543>>, <<2662, 2671>>, <<2790, 2799>>,
     <<2918, 2927>>, <<3046, 3055>>, <<3174, 3183>>, <<3302, 3311>>,
     <<3430, 3439>>, <<3558, 3567>>, <<3664, 3673>>, <<3792, 3801>>,
     <<3872, 3881>>, <<4160, 4169>>, <<4240, 4249>>, <<6112, 6121>>,
     <<6160, 6169>>, <<6470, 6479>>, <<6608, 6617>>, <<6784, 6793>>,
     <<6800, 6809>>, <<6992, 7001>>, <<7088, 7097>>, <<7232, 7241>>,
     <<7248, 7257>>, <<42528, 42537>>, <<43216, 43225>>, <<43264, 43273>>,
     <<43472, 43481>>, <<43504, 43513>>, <<43600, 43609>>, <<44016, 44025>>,
     <<65296, 65305>>, <<66720, 66729>>, <<68912, 68921>>, <<69734, 69743>>,
     <<69872, 69881>>, <<69942, 69951>>, <<70096, 70105>>, <<70384, 70393>>,
     <<70736, 70745>>, <<70864, 70873>>, <<71248, 71257>>, <<71360, 71369>>,
     <<71472, 71481>>, <<71904, 71913>>, <<72016, 72025>>, <<72784, 72793>>,
     <<73040, 73049>>, <<73120, 73129>>, <<92768, 92777>>, <<92864, 92873>>,
     <<93008, 93017>>, <<120782, 120831>>, <<123200, 123209>>,
     <<123632, 123641>>, <<125264, 125273>>, <<130032, 130041>>}

AsciiDigitRanges == AsciiRanges(DigitRanges)

IsDigit(c) ==
    IF c < 128 THEN InRanges(c, AsciiDigitRanges) ELSE InRanges(c, DigitRanges)

\* The class \w of the re module on str (line 74): the ranges <<first, last>>
\* of the code points of the letters and numeric characters of every script
\* and of the underscore.
WordRanges ==
    {<<48, 57>>, <<65, 90>>, <<95, 95>>, <<97, 122>>, <<170, 170>>,
     <<178, 179>>, <<181, 181>>, <<185, 186>>, <<188, 190>>, <<192, 214>>,
     <<216, 246>>, <<248, 705>>, <<710, 721>>, <<736, 740>>, <<748, 748>>,
     <<750, 750>>, <<880, 884>>, <<886, 887>>, <<890, 893>>, <<895, 895>>,
     <<902, 902>>, <<904, 906>>, <<908, 908>>, <<910, 929>>, <<931, 1013>>,
     <<1015, 1153>>, <<1162, 1327>>, <<1329, 1366>>, <<1369, 1369>>,
     <<1376, 1416>>, <<1488, 1514>>, <<1519, 1522>>, <<1568, 1610>>,
     <<1632, 1641>>, <<1646, 1647>>, <<1649, 1747>>, <<1749, 1749>>,
     <<1765, 1766>>, <<1774, 1788>>, <<1791, 1791>>, <<1808, 1808>>,
     <<1810, 1839>>, <<1869, 1957>>, <<1969, 1969>>, <<1984, 2026>>,
     <<2036, 2037>>, <<2042, 2042>>, <<2048, 2069>>, <<2074, 2074>>,
     <<2084, 2084>>, <<2088, 2088>>, <<2112, 2136>>, <<2144, 2154>>,
     <<2160, 2183>>, <<2185, 2190>>, <<2208, 2249>>, <<2308, 2361>>,
     <<2365, 2365>>, <<2384, 2384>>, <<2392, 2401>>, <<2406, 2415>>,
     <<2417, 2432>>, <<2437, 2444>>, <<2447, 2448>>, <<2451, 2472>>,
     <<2474, 2480>>, <<2482, 2482>>, <<2486, 2489>>, <<2493, 2493>>,
     <<2510, 2510>>, <<2524, 2525>>, <<2527, 2529>>, <<2534, 2545>>,
     <<2548, 2553>>, <<2556, 2556>>, <<2565, 2570>>, <<2575, 2576>>,
     <<2579, 2600>>, <<2602, 2608>>, <<2610, 2611>>, <<2613, 2614>>,
     <<2616, 2617>>, <<2649, 2652>>, <<2654, 2654>>, <<2662, 2671>>,
     <<2674, 2676>>, <<2693, 2701>>, <<2703, 2705>>, <<2707, 2728>>,
     <<2730, 2736>>, <<2738, 2739>>, <<2741, 2745>>, <<2749, 2749>>,
     <<2768, 2768>>, <<2784, 2785>>, <<2790, 2799>>, <<2809, 2809>>,
     <<2821, 2828>>, <<2831, 2832>>, <<2835, 2856>>, <<2858, 2864>>,
     <<2866, 2867>>, <<2869, 2873>>, <<2877, 2877>>, <<2908, 2909>>,
     <<2911, 2913>>, <<2918, 2927>>, <<2929, 2935>>, <<2947, 2947>>,
     <<2949, 2954>>, <<2958, 2960>>, <<2962, 2965>>, <<2969, 2970>>,
     <<2972, 2972>>, <<2974, 2975>>, <<2979, 2980>>, <<2984, 2986>>,
     <<2990, 3001>>, <<3024, 3024>>, <<3046, 3058>>, <<3077, 3084>>,
     <<3086, 3088>>, <<3090, 3112>>, <<3114, 3129>>, <<3133, 3133>>,
     <<3160, 3162>>, <<3165, 3165>>, <<3168, 3169>>, <<3174, 3183>>,
     <<3192, 3198>>, <<3200, 3200>>, <<3205, 3212>>, <<3214, 3216>>,
     <<3218, 3240>>, <<3242, 3251>>, <<3253, 3257>>, <<3261, 3261>>,
     <<3293, 3294>>, <<3296, 3297>>, <<3302, 3311>>, <<3313, 3314>>,
     <<3332, 3340>>, <<3342, 3344>>, <<3346, 3386>>, <<3389, 3389>>,
     <<3406, 3406>>, <<3412, 3414>>, <<3416, 3425>>, <<3430, 3448>>,
     <<3450, 3455>>, <<3461, 3478>>, <<3482, 3505>>, <<3507, 3515>>,
     <<3517, 3517>>, <<3520, 3526>>, <<3558, 3567>>, <<3585, 3632>>,
     <<3634, 3635>>, <<3648, 3654>>, <<3664, 3673>>, <<3713, 3714>>,
     <<3716, 3716>>, <<3718, 3722>>, <<3724, 3747>>, <<3749, 3749>>,
     <<3751, 3760>>, <<3762, 3763>>, <<3773, 3773>>, <<3776, 3780>>,
     <<3782, 3782>>, <<3792, 3801>>, <<3804, 3807>>, <<3840, 3840>>,
     <<3872, 3891>>, <<3904, 3911>>, <<3913, 3948>>, <<3976, 3980>>,
     <<4096, 4138>>, <<4159, 4169>>, <<4176, 4181>>, <<4186, 4189>>,
     <<4193, 4193>>, <<4197, 4198>>, <<4206, 4208>>, <<4213, 4225>>,
     <<4238, 4238>>, <<4240, 4249>>, <<4256, 4293>>, <<4295, 4295>>,
     <<4301, 4301>>, <<4304, 4346>>, <<4348, 4680>>, <<4682, 4685>>,
     <<4688, 4694>>, <<4696, 4696>>, <<4698, 4701>>, <<4704, 4744>>,
     <<4746, 4749>>, <<4752, 4784>>, <<4786, 4789>>, <<4792, 4798>>,
     <<4800, 4800>>, <<4802, 4805>>, <<4808, 4822>>, <<4824, 4880>>,
     <<4882, 4885>>, <<4888, 4954>>, <<4969, 4988>>, <<4992, 5007>>,
     <<5024, 5109>>, <<5112, 5117>>, <<5121, 5740>>, <<5743, 5759>>,
     <<5761, 5786>>, <<5792, 5866>>, <<5870, 5880>>, <<5888, 5905>>,
     <<5919, 5937>>, <<5952, 5969>>, <<5984, 5996>>, <<5998, 6000>>,
     <<6016, 6067>>, <<6103, 6103>>, <<6108, 6108>>, <<6112, 6121>>,
     <<6128, 6137>>, <<6160, 6169>>, <<6176, 6264>>, <<6272, 6276>>,
     <<6279, 6312>>, <<6314, 6314>>, <<6320, 6389>>, <<6400, 6430>>,
     <<6470, 6509>>, <<6512, 6516>>, <<6528, 6571>>, <<6576, 6601>>,
     <<6608, 6618>>, <<6656, 6678>>, <<6688, 6740>>, <<6784, 6793>>,
     <<6800, 6809>>, <<6823, 6823>>, <<6917, 6963>>, <<6981, 6988>>,
     <<6992, 7001>>, <<7043, 7072>>, <<7086, 7141>>, <<7168, 7203>>,
     <<7232, 7241>>, <<7245, 7293>>, <<7296, 7304>>, <<7312, 7354>>,
     <<7357, 7359>>, <<7401, 7404>>, <<7406, 7411>>, <<7413, 7414>>,
     <<7418, 7418>>, <<7424, 7615>>, <<7680, 7957>>, <<7960, 7965>>,
     <<7968, 8005>>, <<8008, 8013>>, <<8016, 8023>>, <<8025, 8025>>,
     <<8027, 8027>>, <<8029, 8029>>, <<8031, 8061>>, <<8064, 8116>>,
     <<8118, 8124>>, <<8126, 8126>>, <<8130, 8132>>, <<8134, 8140>>,
     <<8144, 8147>>, <<8150, 8155>>, <<8160, 8172>>, <<8178, 8180>>,
     <<8182, 8188>>, <<8304, 8305>>, <<8308, 8313>>, <<8319, 8329>>,
     <<8336, 8348>>, <<8450, 8450>>, <<8455, 8455>>, <<8458, 8467>>,
     <<8469, 8469>>, <<8473, 8477>>, <<8484, 8484>>, <<8486, 8486>>,
     <<8488, 8488>>, <<8490, 8493>>, <<8495, 8505>>, <<8508, 8511>>,
     <<8517, 8521>>, <<8526, 8526>>, <<8528, 8585>>, <<9312, 9371>>,
     <<9450, 9471>>, <<10102, 10131>>, <<11264, 11492>>, <<11499, 11502>>,
     <<11506, 11507>>, <<11517, 11517>>, <<11520, 11557>>, <<11559, 11559>>,
     <<11565, 11565>>, <<11568, 11623>>, <<11631, 11631>>, <<11648, 11670>>,
     <<11680, 11686>>, <<11688, 11694>>, <<11696, 11702>>, <<11704, 11710>>,
     <<11712, 11718>>, <<11720, 11726>>, <<11728, 11734>>, <<11736, 11742>>,
     <<11823, 11823>>, <<12293, 12295>>, <<12321, 12329>>, <<12337, 12341>>,
     <<12344, 12348>>, <<12353, 12438>>, <<12445, 12447>>, <<12449, 12538>>,
     <<12540, 12543>>, <<12549, 12591>>, <<12593, 12686>>, <<12690, 12693>>,
     <<12704, 12735>>, <<12784, 12799>>, <<12832, 12841>>, <<12872, 12879>>,
     <<12881, 12895>>, <<12928, 12937>>, <<12977, 12991>>, <<13312, 19903>>,
     <<19968, 42124>>, <<42192, 42237>>, <<42240, 42508>>, <<42512, 42539>>,
     <<42560, 42606>>, <<42623, 42653>>, <<42656, 42735>>, <<42775, 42783>>,
     <<42786, 42888>>, <<42891, 42954>>, <<42960, 42961>>, <<42963, 42963>>,
     <<42965, 42969>>, <<42994, 43009>>, <<43011, 43013>>, <<43015, 43018>>,
     <<43020, 43042>>, <<43056, 43061>>, <<43072, 43123>>, <<43138, 43187>>,
     <<43216, 43225>>, <<43250, 43255>>, <<43259, 43259>>, <<43261, 43262>>,
     <<43264, 43301>>, <<43312, 43334>>, <<43360, 43388>>, <<43396, 43442>>,
     <<43471, 43481>>, <<43488, 43492>>, <<43494, 43518>>, <<43520, 43560>>,
     <<43584, 43586>>, <<43588, 43595>>, <<43600, 43609>>, <<43616, 43638>>,
     <<43642, 43642>>, <<43646, 43695>>, <<43697, 43697>>, <<43701, 43702>>,
     <<43705, 43709>>, <<43712, 43712>>, <<43714, 43714>>, <<43739, 43741>>,
     <<43744, 43754>>, <<43762, 43764>>, <<43777, 43782>>, <<43785, 43790>>,
     <<43793, 43798>>, <<43808, 43814>>, <<43816, 43822>>, <<43824, 43866>>,
     <<43868, 43881>>, <<43888, 44002>>, <<44016, 44025>>, <<44032, 55203>>,
     <<55216, 55238>>, <<55243, 55291>>, <<63744, 64109>>, <<64112, 64217>>,
     <<64256, 64262>>, <<64275, 64279>>, <<64285, 64285>>, <<64287, 64296>>,
     <<64298, 64310>>, <<64312, 64316>>, <<64318, 64318>>, <<64320, 64321>>,
     <<64323, 64324>>, <<64326, 64433>>, <<64467, 64829>>, <<64848, 64911>>,
     <<64914, 64967>>, <<65008, 65019>>, <<65136, 65140>>, <<65142, 65276>>,
     <<65296, 65305>>, <<65313, 65338>>, <<65345, 65370>>, <<65382, 65470>>,
     <<65474, 65479>>, <<65482, 65487>>, <<65490, 65495>>, <<65498, 65500>>,
     <<65536, 65547>>, <<65549, 65574>>, <<65576, 65594>>, <<65596, 65597>>,
     <<65599, 65613>>, <<65616, 65629>>, <<65664, 65786>>, <<65799, 65843>>,
     <<65856, 65912>>, <<65930, 65931>>, <<66176, 66204>>, <<66208, 66256>>,
     <<66273, 66299>>, <<66304, 66339>>, <<66349, 66378>>, <<66384, 66421>>,
     <<66432, 66461>>, <<66464, 66499>>, <<66504, 66511>>, <<66513, 66517>>,
     <<66560, 66717>>, <<66720, 66729>>, <<66736, 66771>>, <<66776, 66811>>,
     <<66816, 66855>>, <<66864, 66915>>, <<66928, 66938>>, <<66940, 66954>>,
     <<66956, 66962>>, <<66964, 66965>>, <<66967, 66977>>, <<66979, 66993>>,
     <<66995, 67001>>, <<67003, 67004>>, <<67072, 67382>>, <<67392, 67413>>,
     <<67424, 67431>>, <<67456, 67461>>, <<67463, 67504>>, <<67506, 67514>>,
     <<67584, 67589>>, <<67592, 67592>>, <<67594, 67637>>, <<67639, 67640>>,
     <<67644, 67644>>, <<67647, 67669>>, <<67672, 67702>>, <<67705, 67742>>,
     <<67751, 67759>>, <<67808, 67826>>, <<67828, 67829>>, <<67835, 67867>>,
     <<67872, 67897>>, <<67968, 68023>>, <<68028, 68047>>, <<68050, 68096>>,
     <<68112, 68115>>, <<68117, 68119>>, <<68121, 68149>>, <<68160, 68168>>,
     <<68192, 68222>>, <<68224, 68255>>, <<68288, 68295>>, <<68297, 68324>>,
     <<68331, 68335>>, <<68352, 68405>>, <<68416, 68437>>, <<68440, 68466>>,
     <<68472, 68497>>, <<68521, 68527>>, <<68608, 68680>>, <<68736, 68786>>,
     <<68800, 68850>>, <<68858, 68899>>, <<68912, 68921>>, <<69216, 69246>>,
     <<69248, 69289>>, <<69296, 69297>>, <<69376, 69415>>, <<69424, 69445>>,
     <<69457, 69460>>, <<69488, 69505>>, <<69552, 69579>>, <<69600, 69622>>,
     <<69635, 69687>>, <<69714, 69743>>, <<69745, 69746>>, <<69749, 69749>>,
     <<69763, 69807>>, <<69840, 69864>>, <<69872, 69881>>, <<69891, 69926>>,
     <<69942, 69951>>, <<69956, 69956>>, <<69959, 69959>>, <<69968, 70002>>,
     <<70006, 70006>>, <<70019, 70066>>, <<70081, 70084>>, <<70096, 70106>>,
     <<70108, 70108>>, <<70113, 70132>>, <<70144, 70161>>, <<70163, 70187>>,
     <<70272, 70278>>, <<70280, 70280>>, <<70282, 70285>>, <<70287, 70301>>,
     <<70303, 70312>>, <<70320, 70366>>, <<70384, 70393>>, <<70405, 70412>>,
     <<70415, 70416>>, <<70419, 70440>>, <<70442, 70448>>, <<70450, 70451>>,
     <<70453, 70457>>, <<70461, 70461>>, <<70480, 70480>>, <<70493, 70497>>,
     <<70656, 70708>>, <<70727, 70730>>, <<70736, 70745>>, <<70751, 70753>>,
     <<70784, 70831>>, <<70852, 70853>>, <<70855, 70855>>, <<70864, 70873>>,
     <<71040, 71086>>, <<71128, 71131>>, <<71168, 71215>>, <<71236, 71236>>,
     <<71248, 71257>>, <<71296, 71338>>, <<71352, 71352>>, <<71360, 71369>>,
     <<71424, 71450>>, <<71472, 71483>>, <<71488, 71494>>, <<71680, 71723>>,
     <<71840, 71922>>, <<71935, 71942>>, <<71945, 71945>>, <<71948, 71955>>,
     <<71957, 71958>>, <<71960, 71983>>, <<71999, 71999>>, <<72001, 72001>>,
     <<72016, 72025>>, <<72096, 72103>>, <<72106, 72144>>, <<72161, 72161>>,
     <<72163, 72163>>, <<72192, 72192>>, <<72203, 72242>>, <<72250, 72250>>,
     <<72272, 72272>>, <<72284, 72329>>, <<72349, 72349>>, <<72368, 72440>>,
     <<72704, 72712>>, <<72714, 72750>>, <<72768, 72768>>, <<72784, 72812>>,
     <<72818, 72847>>, <<72960, 72966>>, <<72968, 72969>>, <<72971, 73008>>,
     <<73030, 73030>>, <<73040, 73049>>, <<73056, 73061>>, <<73063, 73064>>,
     <<73066, 73097>>, <<73112, 73112>>, <<73120, 73129>>, <<73440, 73458>>,
     <<73648, 73648>>, <<73664, 73684>>, <<73728, 74649>>, <<74752, 74862>>,
     <<74880, 75075>>, <<77712, 77808>>, <<77824, 78894>>, <<82944, 83526>>,
     <<92160, 92728>>, <<92736, 92766>>, <<92768, 92777>>, <<92784, 92862>>,
     <<92864, 92873>>, <<92880, 92909>>, <<92928, 92975>>, <<92992, 92995>>,
     <<93008, 93017>>, <<93019, 93025>>, <<93027, 93047>>, <<93053, 93071>>,
     <<93760, 93846>>, <<93952, 94026>>, <<94032, 94032>>, <<94099, 94111>>,
     <<94176, 94177>>, <<94179, 94179>>, <<94208, 100343>>,
     <<100352, 101589>>, <<101632, 101640>>, <<110576, 110579>>,
     <<110581, 110587>>, <<110589, 110590>>, <<110592, 110882>>,
     <<110928, 110930>>, <<110948, 110951>>, <<110960, 111355>>,
     <<113664, 113770>>, <<113776, 113788>>, <<113792, 113800>>,
     <<113808, 113817>>, <<119520, 119539>>, <<119648, 119672>>,
     <<119808, 119892>>, <<119894, 119964>>, <<119966, 119967>>,
     <<119970, 119970>>, <<119973, 119974>>, <<119977, 119980>>,
     <<119982, 119993>>, <<119995, 119995>>, <<119997, 120003>>,
     <<120005, 120069>>, <<120071, 120074>>, <<120077, 120084>>,
     <<120086, 120092>>, <<120094, 120121>>, <<120123, 120126>>,
     <<120128, 120132>>, <<120134, 120134>>, <<120138, 120144>>,
     <<120146, 120485>>, <<120488, 120512>>, <<120514, 120538>>,
     <<120540, 120570>>, <<120572, 120596>>, <<120598, 120628>>,
     <<120630, 120654>>, <<120656, 120686>>, <<120688, 120712>>,
     <<120714, 120744>>, <<120746, 120770>>, <<120772, 120779>>,
     <<120782, 120831>>, <<122624, 122654>>, <<123136, 123180>>,
     <<123191, 123197>>, <<123200, 123209>>, <<123214, 123214>>,
     <<123536, 123565>>, <<123584, 123627>>, <<123632, 123641>>,
     <<124896, 124902>>, <<124904, 124907>>, <<124909, 124910>>,
     <<124912, 124926>>, <<124928, 125124>>, <<125127, 125135>>,
     <<125184, 125251>>, <<125259, 125259>>, <<125264, 125273>>,
     <<126065, 126123>>, <<126125, 126127>>, <<126129, 126132>>,
     <<126209, 126253>>, <<126255, 126269>>, <<126464, 126467>>,
     <<126469, 126495>>, <<126497, 126498>>, <<126500, 126500>>,
     <<126503, 126503>>, <<126505, 126514>>, <<126516, 126519>>,
     <<126521, 126521>>, <<126523, 126523>>, <<126530, 126530>>,
     <<126535, 126535>>, <<126537, 126537>>, <<126539, 126539>>,
     <<126541, 126543>>, <<126545, 126546>>, <<126548, 126548>>,
     <<126551, 126551>>, <<126553, 126553>>, <<126555, 126555>>,
     <<126557, 126557>>, <<126559, 126559>>, <<126561, 126562>>,
     <<126564, 126564>>, <<126567, 126570>>, <<126572, 126578>>,
     <<126580, 126583>>, <<126585, 126588>>, <<126590, 126590>>,
     <<126592, 126601>>, <<126603, 126619>>, <<126625, 126627>>,
     <<126629, 126633>>, <<126635, 126651>>, <<127232, 127244>>,
     <<130032, 130041>>, <<131072, 173791>>, <<173824, 177976>>,
     <<177984, 178205>>, <<178208, 183969>>, <<183984, 191456>>,
     <<194560, 195101>>, <<196608, 201546>>}

AsciiWordRanges == AsciiRanges(WordRanges)

IsWordChar(c) ==
    IF c < 128 THEN InRanges(c, AsciiWordRanges) ELSE InRanges(c, WordRanges)

\* str.lower() (line 74) on the characters it maps to one other character:
\* <<first, last, step, delta>> says that first, first + step, ... up to last
\* go to the code point delta higher.
LowerRanges ==
    {<<65, 90, 1, 32>>, <<192, 214, 1, 32>>, <<216, 222, 1, 32>>,
     <<256, 302, 2, 1>>, <<306, 310, 2, 1>>, <<313, 327, 2, 1>>,
     <<330, 374, 2, 1>>, <<376, 376, 1, -121>>, <<377, 381, 2, 1>>,
     <<385, 385, 1, 210>>, <<386, 388, 2, 1>>, <<390, 390, 1, 206>>,
     <<391, 391, 1, 1>>, <<393, 394, 1, 205>>, <<395, 395, 1, 1>>,
     <<398, 398, 1, 79>>, <<399, 399, 1, 202>>, <<400, 400, 1, 203>>,
     <<401, 401, 1, 1>>, <<403, 403, 1, 205>>, <<404, 404, 1, 207>>,
     <<406, 406, 1, 211>>, <<407, 407, 1, 209>>, <<408, 408, 1, 1>>,
     <<412, 412, 1, 211>>, <<413, 413, 1, 213>>, <<415, 415, 1, 214>>,
     <<416, 420, 2, 1>>, <<422, 422, 1, 218>>, <<423, 423, 1, 1>>,
     <<425, 425, 1, 218>>, <<428, 428, 1, 1>>, <<430, 430, 1, 218>>,
     <<431, 431, 1, 1>>, <<433, 434, 1, 217>>, <<435, 437, 2, 1>>,
     <<439, 439, 1, 219>>, <<440, 440, 1, 1>>, <<444, 444, 1, 1>>,
     <<452, 452, 1, 2>>, <<453, 453, 1, 1>>, <<455, 455, 1, 2>>,
     <<456, 456, 1, 1>>, <<458, 458, 1, 2>>, <<459, 475, 2, 1>>,
     <<478, 494, 2, 1>>, <<497, 497, 1, 2>>, <<498, 500, 2, 1>>,
     <<502, 502, 1, -97>>, <<503, 503, 1, -56>>, <<504, 542, 2, 1>>,
     <<544, 544, 1, -130>>, <<546, 562, 2, 1>>, <<570, 570, 1, 10795>>,
     <<571, 571, 1, 1>>, <<573, 573, 1, -163>>, <<574, 574, 1, 10792>>,
     <<577, 577, 1, 1>>, <<579, 579, 1, -195>>, <<580, 580, 1, 69>>,
     <<581, 581, 1, 71>>, <<582, 590, 2, 1>>, <<880, 882, 2, 1>>,
     <<886, 886, 1, 1>>, <<895, 895, 1, 116>>, <<902, 902, 1, 38>>,
     <<904, 906, 1, 37>>, <<908, 908, 1, 64>>, <<910, 911, 1, 63>>,
     <<913, 929, 1, 32>>, <<931, 939, 1, 32>>, <<975, 975, 1, 8>>,
     <<984, 1006, 2, 1>>, <<1012, 1012, 1, -60>>, <<1015, 1015, 1, 1>>,
     <<1017, 1017, 1, -7>>, <<1018, 1018, 1, 1>>, <<1021, 1023, 1, -130>>,
     <<1024, 1039, 1, 80>>, <<1040, 1071, 1, 32>>, <<1120, 1152, 2, 1>>,
     <<1162, 1214, 2, 1>>, <<1216, 1216, 1, 15>>, <<1217, 1229, 2, 1>>,
     <<1232, 1326, 2, 1>>, <<1329, 1366, 1, 48>>, <<4256, 4293, 1, 7264>>,
     <<4295, 4295, 1, 7264>>, <<4301, 4301, 1, 7264>>,
     <<5024, 5103, 1, 38864>>, <<5104, 5109, 1, 8>>,
     <<7312, 7354, 1, -3008>>, <<7357, 7359, 1, -3008>>,
     <<7680, 7828, 2, 1>>, <<7838, 7838, 1, -7615>>, <<7840, 7934, 2, 1>>,
     <<7944, 7951, 1, -8>>, <<7960, 7965, 1, -8>>, <<7976, 7983, 1, -8>>,
     <<7992, 7999, 1, -8>>, <<8008, 8013, 1, -8>>, <<8025, 8031, 2, -8>>,
     <<8040, 8047, 1, -8>>, <<8072, 8079, 1, -8>>, <<8088, 8095, 1, -8>>,
     <<8104, 8111, 1, -8>>, <<8120, 8121, 1, -8>>, <<8122, 8123, 1, -74>>,
     <<8124, 8124, 1, -9>>, <<8136, 8139, 1, -86>>, <<8140, 8140, 1, -9>>,
     <<8152, 8153, 1, -8>>, <<8154, 8155, 1, -100>>, <<8168, 8169, 1, -8>>,
     <<8170, 8171, 1, -112>>, <<8172, 8172, 1, -7>>, <<8184, 8185, 1, -128>>,
     <<8186, 8187, 1, -126>>, <<8188, 8188, 1, -9>>,
     <<8486, 8486, 1, -7517>>, <<8490, 8490, 1, -8383>>,
     <<8491, 8491, 1, -8262>>, <<8498, 8498, 1, 28>>, <<8544, 8559, 1, 16>>,
     <<8579, 8579, 1, 1>>, <<9398, 9423, 1, 26>>, <<11264, 11311, 1, 48>>,
     <<11360, 11360, 1, 1>>, <<11362, 11362, 1, -10743>>,
     <<11363, 11363, 1, -3814>>, <<11364, 11364, 1, -10727>>,
     <<11367, 11371, 2, 1>>, <<11373, 11373, 1, -10780>>,
     <<11374, 11374, 1, -10749>>, <<11375, 11375, 1, -10783>>,
     <<11376, 11376, 1, -10782>>, <<11378, 11378, 1, 1>>,
     <<11381, 11381, 1, 1>>, <<11390, 11391, 1, -10815>>,
     <<11392, 11490, 2, 1>>, <<11499, 11501, 2, 1>>, <<11506, 11506, 1, 1>>,
     <<42560, 42604, 2, 1>>, <<42624, 42650, 2, 1>>, <<42786, 42798, 2, 1>>,
     <<42802, 42862, 2, 1>>, <<42873, 42875, 2, 1>>,
     <<42877, 42877, 1, -35332>>, <<42878, 42886, 2, 1>>,
     <<42891, 42891, 1, 1>>, <<42893, 42893, 1, -42280>>,
     <<42896, 42898, 2, 1>>, <<42902, 42920, 2, 1>>,
     <<42922, 42922, 1, -42308>>, <<42923, 42923, 1, -42319>>,
     <<42924, 42924, 1, -42315>>, <<42925, 42925, 1, -42305>>,
     <<42926, 42926, 1, -42308>>, <<42928, 42928, 1, -42258>>,
     <<42929, 42929, 1, -42282>>, <<42930, 42930, 1, -42261>>,
     <<42931, 42931, 1, 928>>, <<42932, 42946, 2, 1>>,
     <<42948, 42948, 1, -48>>, <<42949, 42949, 1, -42307>>,
     <<42950, 42950, 1, -35384>>, <<42951, 42953, 2, 1>>,
     <<42960, 42960, 1, 1>>, <<42966, 42968, 2, 1>>, <<42997, 42997, 1, 1>>,
     <<65313, 65338, 1, 32>>, <<66560, 66599, 1, 40>>,
     <<66736, 66771, 1, 40>>, <<66928, 66964, 2, 39>>,
     <<66929, 66937, 2, 39>>, <<66941, 66953, 2, 39>>,
     <<66957, 66961, 2, 39>>, <<66965, 66965, 1, 39>>,
     <<68736, 68786, 1, 64>>, <<71840, 71871, 1, 32>>,
     <<93760, 93791, 1, 32>>, <<125184, 125217, 1, 34>>}

AsciiLowerRanges == AsciiRanges(LowerRanges)

\* The cased characters (lowercase, uppercase and titlecase letters), which
\* str.lower() looks for around a capital sigma.
CasedRanges ==
    {<<65, 90>>, <<97, 122>>, <<170, 170>>, <<181, 181>>, <<186, 186>>,
     <<192, 214>>, <<216, 246>>, <<248, 442>>, <<444, 447>>, <<452, 659>>,
     <<661, 696>>, <<704, 705>>, <<736, 740>>, <<837, 837>>, <<880, 883>>,
     <<886, 887>>, <<890, 893>>, <<895, 895>>, <<902, 902>>, <<904, 906>>,
     <<908, 908>>, <<910, 929>>, <<931, 1013>>, <<1015, 1153>>,
     <<1162, 1327>>, <<1329, 1366>>, <<1376, 1416>>, <<4256, 4293>>,
     <<4295, 4295>>, <<4301, 4301>>, <<4304, 4346>>, <<4349, 4351>>,
     <<5024, 5109>>, <<5112, 5117>>, <<7296, 7304>>, <<7312, 7354>>,
     <<7357, 7359>>, <<7424, 7615>>, <<7680, 7957>>, <<7960, 7965>>,
     <<7968, 8005>>, <<8008, 8013>>, <<8016, 8023>>, <<8025, 8025>>,
     <<8027, 8027>>, <<8029, 8029>>, <<8031, 8061>>, <<8064, 8116>>,
     <<8118, 8124>>, <<8126, 8126>>, <<8130, 8132>>, <<8134, 8140>>,
     <<8144, 8147>>, <<8150, 8155>>, <<8160, 8172>>, <<8178, 8180>>,
     <<8182, 8188>>, <<8305, 8305>>, <<8319, 8319>>, <<8336, 8348>>,
     <<8450, 8450>>, <<8455, 8455>>, <<8458, 8467>>, <<8469, 8469>>,
     <<8473, 8477>>, <<8484, 8484>>, <<8486, 8486>>, <<8488, 8488>>,
     <<8490, 8493>>, <<8495, 8500>>, <<8505, 8505>>, <<8508, 8511>>,
     <<8517, 8521>>, <<8526, 8526>>, <<8544, 8575>>, <<8579, 8580>>,
     <<9398, 9449>>, <<11264, 11492>>, <<11499, 11502>>, <<11506, 11507>>,
     <<11520, 11557>>, <<11559, 11559>>, <<11565, 11565>>, <<42560, 42605>>,
     <<42624, 42653>>, <<42786, 42887>>, <<42891, 42894>>, <<42896, 42954>>,
     <<42960, 42961>>, <<42963, 42963>>, <<42965, 42969>>, <<42997, 42998>>,
     <<43000, 43002>>, <<43824, 43866>>, <<43868, 43880>>, <<43888, 43967>>,
     <<64256, 64262>>, <<64275, 64279>>, <<65313, 65338>>, <<65345, 65370>>,
     <<66560, 66639>>, <<66736, 66771>>, <<66776, 66811>>, <<66928, 66938>>,
     <<66940, 66954>>, <<66956, 66962>>, <<66964, 66965>>, <<66967, 66977>>,
     <<66979, 66993>>, <<66995, 67001>>, <<67003, 67004>>, <<67456, 67456>>,
     <<67459, 67461>>, <<67463, 67504>>, <<67506, 67514>>, <<68736, 68786>>,
     <<68800, 68850>>, <<71840, 71903>>, <<93760, 93823>>,
     <<119808, 119892>>, <<119894, 119964>>, <<119966, 119967>>,
     <<119970, 119970>>, <<119973, 119974>>, <<119977, 119980>>,
     <<119982, 119993>>, <<119995, 119995>>, <<119997, 120003>>,
     <<120005, 120069>>, <<120071, 120074>>, <<120077, 120084>>,
     <<120086, 120092>>, <<120094, 120121>>, <<120123, 120126>>,
     <<120128, 120132>>, <<120134, 120134>>, <<120138, 120144>>,
     <<120146, 120485>>, <<120488, 120512>>, <<120514, 120538>>,
     <<120540, 120570>>, <<120572, 120596>>, <<120598, 120628>>,
     <<120630, 120654>>, <<120656, 120686>>, <<120688, 120712>>,
     <<120714, 120744>>, <<120746, 120770>>, <<120772, 120779>>,
     <<122624, 122633>>, <<122635, 122654>>, <<125184, 125251>>,
     <<127280, 127305>>, <<127312, 127337>>, <<127344, 127369>>}

IsCased(c) == InRanges(c, CasedRanges)

\* The case-ignorable characters (marks, modifiers, format characters and
\* word-internal punctuation), which str.lower() skips around a capital sigma.
CaseIgnorableRanges ==
    {<<39, 39>>, <<46, 46>>, <<58, 58>>, <<94, 94>>, <<96, 96>>,
     <<168, 168>>, <<173, 173>>, <<175, 175>>, <<180, 180>>, <<183, 184>>,
     <<688, 879>>, <<884, 885>>, <<890, 890>>, <<900, 901>>, <<903, 903>>,
     <<1155, 1161>>, <<1369, 1369>>, <<1375, 1375>>, <<1425, 1469>>,
     <<1471, 1471>>, <<1473, 1474>>, <<1476, 1477>>, <<1479, 1479>>,
     <<1524, 1524>>, <<1536, 1541>>, <<1552, 1562>>, <<1564, 1564>>,
     <<1600, 1600>>, <<1611, 1631>>, <<1648, 1648>>, <<1750, 1757>>,
     <<1759, 1768>>, <<1770, 1773>>, <<1807, 1807>>, <<1809, 1809>>,
     <<1840, 1866>>, <<1958, 1968>>, <<2027, 2037>>, <<2042, 2042>>,
     <<2045, 2045>>, <<2070, 2093>>, <<2137, 2139>>, <<2184, 2184>>,
     <<2192, 2193>>, <<2200, 2207>>, <<2249, 2306>>, <<2362, 2362>>,
     <<2364, 2364>>, <<2369, 2376>>, <<2381, 2381>>, <<2385, 2391>>,
     <<2402, 2403>>, <<2417, 2417>>, <<2433, 2433>>, <<2492, 2492>>,
     <<2497, 2500>>, <<2509, 2509>>, <<2530, 2531>>, <<2558, 2558>>,
     <<2561, 2562>>, <<2620, 2620>>, <<2625, 2626>>, <<2631, 2632>>,
     <<2635, 2637>>, <<2641, 2641>>, <<2672, 2673>>, <<2677, 2677>>,
     <<2689, 2690>>, <<2748, 2748>>, <<2753, 2757>>, <<2759, 2760>>,
     <<2765, 2765>>, <<2786, 2787>>, <<2810, 2815>>, <<2817, 2817>>,
     <<2876, 2876>>, <<2879, 2879>>, <<2881, 2884>>, <<2893, 2893>>,
     <<2901, 2902>>, <<2914, 2915>>, <<2946, 2946>>, <<3008, 3008>>,
     <<3021, 3021>>, <<3072, 3072>>, <<3076, 3076>>, <<3132, 3132>>,
     <<3134, 3136>>, <<3142, 3144>>, <<3146, 3149>>, <<3157, 3158>>,
     <<3170, 3171>>, <<3201, 3201>>, <<3260, 3260>>, <<3263, 3263>>,
     <<3270, 3270>>, <<3276, 3277>>, <<3298, 3299>>, <<3328, 3329>>,
     <<3387, 3388>>, <<3393, 3396>>, <<3405, 3405>>, <<3426, 3427>>,
     <<3457, 3457>>, <<3530, 3530>>, <<3538, 3540>>, <<3542, 3542>>,
     <<3633, 3633>>, <<3636, 3642>>, <<3654, 3662>>, <<3761, 3761>>,
     <<3764, 3772>>, <<3782, 3782>>, <<3784, 3789>>, <<3864, 3865>>,
     <<3893, 3893>>, <<3895, 3895>>, <<3897, 3897>>, <<3953, 3966>>,
     <<3968, 3972>>, <<3974, 3975>>, <<3981, 3991>>, <<3993, 4028>>,
     <<4038, 4038>>, <<4141, 4144>>, <<4146, 4151>>, <<4153, 4154>>,
     <<4157, 4158>>, <<4184, 4185>>, <<4190, 4192>>, <<4209, 4212>>,
     <<4226, 4226>>, <<4229, 4230>>, <<4237, 4237>>, <<4253, 4253>>,
     <<4348, 4348>>, <<4957, 4959>>, <<5906, 5908>>, <<5938, 5939>>,
     <<5970, 5971>>, <<6002, 6003>>, <<6068, 6069>>, <<6071, 6077>>,
     <<6086, 6086>>, <<6089, 6099>>, <<6103, 6103>>, <<6109, 6109>>,
     <<6155, 6159>>, <<6211, 6211>>, <<6277, 6278>>, <<6313, 6313>>,
     <<6432, 6434>>, <<6439, 6440>>, <<6450, 6450>>, <<6457, 6459>>,
     <<6679, 6680>>, <<6683, 6683>>, <<6742, 6742>>, <<6744, 6750>>,
     <<6752, 6752>>, <<6754, 6754>>, <<6757, 6764>>, <<6771, 6780>>,
     <<6783, 6783>>, <<6823, 6823>>, <<6832, 6862>>, <<6912, 6915>>,
     <<6964, 6964>>, <<6966, 6970>>, <<6972, 6972>>, <<6978, 6978>>,
     <<7019, 7027>>, <<7040, 7041>>, <<7074, 7077>>, <<7080, 7081>>,
     <<7083, 7085>>, <<7142, 7142>>, <<7144, 7145>>, <<7149, 7149>>,
     <<7151, 7153>>, <<7212, 7219>>, <<7222, 7223>>, <<7288, 7293>>,
     <<7376, 7378>>, <<7380, 7392>>, <<7394, 7400>>, <<7405, 7405>>,
     <<7412, 7412>>, <<7416, 7417>>, <<7468, 7530>>, <<7544, 7544>>,
     <<7579, 7679>>, <<8125, 8125>>, <<8127, 8129>>, <<8141, 8143>>,
     <<8157, 8159>>, <<8173, 8175>>, <<8189, 8190>>, <<8203, 8207>>,
     <<8216, 8217>>, <<8228, 8228>>, <<8231, 8231>>, <<8234, 8238>>,
     <<8288, 8292>>, <<8294, 8303>>, <<8305, 8305>>, <<8319, 8319>>,
     <<8336, 8348>>, <<8400, 8432>>, <<11388, 11389>>, <<11503, 11505>>,
     <<11631, 11631>>, <<11647, 11647>>, <<11744, 11775>>, <<11823, 11823>>,
     <<12293, 12293>>, <<12330, 12333>>, <<12337, 12341>>, <<12347, 12347>>,
     <<12441, 12446>>, <<12540, 12542>>, <<40981, 40981>>, <<42232, 42237>>,
     <<42508, 42508>>, <<42607, 42610>>, <<42612, 42621>>, <<42623, 42623>>,
     <<42652, 42655>>, <<42736, 42737>>, <<42752, 42785>>, <<42864, 42864>>,
     <<42888, 42890>>, <<42994, 42996>>, <<43000, 43001>>, <<43010, 43010>>,
     <<43014, 43014>>, <<43019, 43019>>, <<43045, 43046>>, <<43052, 43052>>,
     <<43204, 43205>>, <<43232, 43249>>, <<43263, 43263>>, <<43302, 43309>>,
     <<43335, 43345>>, <<43392, 43394>>, <<43443, 43443>>, <<43446, 43449>>,
     <<43452, 43453>>, <<43471, 43471>>, <<43493, 43494>>, <<43561, 43566>>,
     <<43569, 43570>>, <<43573, 43574>>, <<43587, 43587>>, <<43596, 43596>>,
     <<43632, 43632>>, <<43644, 43644>>, <<43696, 43696>>, <<43698, 43700>>,
     <<43703, 43704>>, <<43710, 43711>>, <<43713, 43713>>, <<43741, 43741>>,
     <<43756, 43757>>, <<43763, 43764>>, <<43766, 43766>>, <<43867, 43871>>,
     <<43881, 43883>>, <<44005, 44005>>, <<44008, 44008>>, <<44013, 44013>>,
     <<64286, 64286>>, <<64434, 64450>>, <<65024, 65039>>, <<65043, 65043>>,
     <<65056, 65071>>, <<65106, 65106>>, <<65109, 65109>>, <<65279, 65279>>,
     <<65287, 65287>>, <<65294, 65294>>, <<65306, 65306>>, <<65342, 65342>>,
     <<65344, 65344>>, <<65392, 65392>>, <<65438, 65439>>, <<65507, 65507>>,
     <<65529, 65531>>, <<66045, 66045>>, <<66272, 66272>>, <<66422, 66426>>,
     <<67456, 67461>>, <<67463, 67504>>, <<67506, 67514>>, <<68097, 68099>>,
     <<68101, 68102>>, <<68108, 68111>>, <<68152, 68154>>, <<68159, 68159>>,
     <<68325, 68326>>, <<68900, 68903>>, <<69291, 69292>>, <<69446, 69456>>,
     <<69506, 69509>>, <<69633, 69633>>, <<69688, 69702>>, <<69744, 69744>>,
     <<69747, 69748>>, <<69759, 69761>>, <<69811, 69814>>, <<69817, 69818>>,
     <<69821, 69821>>, <<69826, 69826>>, <<69837, 69837>>, <<69888, 69890>>,
     <<69927, 69931>>, <<69933, 69940>>, <<70003, 70003>>, <<70016, 70017>>,
     <<70070, 70078>>, <<70089, 70092>>, <<70095, 70095>>, <<70191, 70193>>,
     <<70196, 70196>>, <<70198, 70199>>, <<70206, 70206>>, <<70367, 70367>>,
     <<70371, 70378>>, <<70400, 70401>>, <<70459, 70460>>, <<70464, 70464>>,
     <<70502, 70508>>, <<70512, 70516>>, <<70712, 70719>>, <<70722, 70724>>,
     <<70726, 70726>>, <<70750, 70750>>, <<70835, 70840>>, <<70842, 70842>>,
     <<70847, 70848>>, <<70850, 70851>>, <<71090, 71093>>, <<71100, 71101>>,
     <<71103, 71104>>, <<71132, 71133>>, <<71219, 71226>>, <<71229, 71229>>,
     <<71231, 71232>>, <<71339, 71339>>, <<71341, 71341>>, <<71344, 71349>>,
     <<71351, 71351>>, <<71453, 71455>>, <<71458, 71461>>, <<71463, 71467>>,
     <<71727, 71735>>, <<71737, 71738>>, <<71995, 71996>>, <<71998, 71998>>,
     <<72003, 72003>>, <<72148, 72151>>, <<72154, 72155>>, <<72160, 72160>>,
     <<72193, 72202>>, <<72243, 72248>>, <<72251, 72254>>, <<72263, 72263>>,
     <<72273, 72278>>, <<72281, 72283>>, <<72330, 72342>>, <<72344, 72345>>,
     <<72752, 72758>>, <<72760, 72765>>, <<72767, 72767>>, <<72850, 72871>>,
     <<72874, 72880>>, <<72882, 72883>>, <<72885, 72886>>, <<73009, 73014>>,
     <<73018, 73018>>, <<73020, 73021>>, <<73023, 73029>>, <<73031, 73031>>,
     <<73104, 73105>>, <<73109, 73109>>, <<73111, 73111>>, <<73459, 73460>>,
     <<78896, 78904>>, <<92912, 92916>>, <<92976, 92982>>, <<92992, 92995>>,
     <<94031, 94031>>, <<94095, 94111>>, <<94176, 94177>>, <<94179, 94180>>,
     <<110576, 110579>>, <<110581, 110587>>, <<110589, 110590>>,
     <<113821, 113822>>, <<113824, 113827>>, <<118528, 118573>>,
     <<118576, 118598>>, <<119143, 119145>>, <<119155, 119170>>,
     <<119173, 119179>>, <<119210, 119213>>, <<119362, 119364>>,
     <<121344, 121398>>, <<121403, 121452>>, <<121461, 121461>>,
     <<121476, 121476>>, <<121499, 121503>>, <<121505, 121519>>,
     <<122880, 122886>>, <<122888, 122904>>, <<122907, 122913>>,
     <<122915, 122916>>, <<122918, 122922>>, <<123184, 123197>>,
     <<123566, 123566>>, <<123628, 123631>>, <<125136, 125142>>,
     <<125252, 125259>>, <<127995, 127999>>, <<917505, 917505>>,
     <<917536, 917631>>, <<917760, 917999>>}

IsCaseIgnorable(c) == InRanges(c, CaseIgnorableRanges)

----------------------------------------------------------------------------
(* load_gospel: reading the file, marker trimming, then header stripping.  *)

\* Line 43, encoding='utf-8-sig': a byte order mark at the start of the
\* file is no part of the text.
StripSignature(t) == IF t # <<>> /\ t[1] = ByteOrderMark THEN Tail(t) ELSE t

\* Line 43, mode 'r' with the default newline=None: "\r\n" and "\r" are
\* read as "\n".
RECURSIVE UniversalNewlines(_)
UniversalNewlines(t) ==
    IF t = <<>> THEN <<>>
    ELSE IF t[1] = CarriageReturn
    THEN IF Len(t) >= 2 /\ t[2] = Newline
         THEN <<Newline>> \o UniversalNewlines(SliceFrom(t, 2))
         ELSE <<Newline>> \o UniversalNewlines(Tail(t))
    ELSE <<t[1]>> \o UniversalNewlines(Tail(t))

\* Lines 43-44: the text f.read() returns for the characters of the file.
ReadText(content) == UniversalNewlines(StripSignature(content))

\* re.match(r'^\d{3}:\d{3}', s) at 1-based position i of s.
VerseAt(s, i) ==
    /\ i + 6 <= Len(s)
    /\ \A k \in {0, 1, 2, 4, 5, 6} : IsDigit(s[i + k])
    /\ s[i + 3] = Colon

start_marker == Str(<<"*", "*", "*", " ", "S", "T", "A", "R", "T", " ", "O", "F">>)
end_marker   == Str(<<"*", "*", "*", " ", "E", "N", "D", " ", "O", "F">>)

\* Lines 50-56: both offsets are taken in the text as read; the slices are
\* applied one after the other.
TrimMarkers(t) ==
    LET start_idx == Find(t, start_marker)
        end_idx   == Find(t, end_marker)
        t1 == IF start_idx # -1 THEN SliceFrom(t, start_idx) ELSE t
        t2 == IF end_idx # -1 THEN SliceTo(t1, end_idx) ELSE t1
    IN  t2

\* Lines 59-67: the loop over the lines, with its skip_header flag.
RECURSIVE CleanLines(_, _)
CleanLines(lines, skip_header) ==
    IF lines = <<>> THEN <<>>
    ELSE LET line == Head(lines)
             skip == IF skip_header /\ VerseAt(line, 1) THEN FALSE ELSE skip_header
         IN  (IF ~skip THEN <<line>> ELSE <<>>) \o CleanLines(Tail(lines), skip)

\* Lines 58-69.
StripHeader(t) == Join(CleanLines(Split(t), TRUE))

\* Lines 40-69, for the characters of the file.
load_gospel(content) == StripHeader(TrimMarkers(ReadText(content)))

----------------------------------------------------------------------------
(* tokenize_and_clean and calculate_style_metrics.                         *)

\* The letters a-z.
LowerLetters == Ord("a")..Ord("z")

\* The code point that str.lower() puts for a character it maps to one
\* character, as a difference.
LowerDelta(c) ==
    LET R  == IF c < 128 THEN AsciiLowerRanges ELSE LowerRanges
        rs == {r \in R : r[1] <= c /\ c <= r[2] /\ (c - r[1]) % r[3] = 0}
    IN  IF rs = {} THEN 0 ELSE (CHOOSE r \in rs : TRUE)[4]

\* str.lower() on one character: a string, of two characters for U+0130.
Lower(c) ==
    IF c = CapitalIDot THEN <<SmallI, CombiningDot>> ELSE <<c + LowerDelta(c)>>

\* A capital sigma at position i of t is lowered to the final sigma when a
\* cased character comes before it and none after it, case-ignorable
\* characters being skipped on both sides.
IsFinalSigma(t, i) ==
    LET before == {j \in 1..(i - 1) : ~IsCaseIgnorable(t[j])}
        after  == {j \in (i + 1)..Len(t) : ~IsCaseIgnorable(t[j])}
    IN  /\ before # {} /\ IsCased(t[MaxOf(before)])
        /\ after = {} \/ ~IsCased(t[MinOf(after)])

\* What str.lower() puts for the character at position i of t.
LowerAt(t, i) ==
    IF t[i] = CapitalSigma
    THEN <<IF IsFinalSigma(t, i) THEN FinalSigma ELSE SmallSigma>>
    ELSE Lower(t[i])

\* Faulty variant of LowerText: the text is not lowercased.
LowerTextOmitted(t) == t

\* text.lower().
LowerText(t) == ConcatAll([i \in 1..Len(t) |-> LowerAt(t, i)])

\* The class [a-z] of the pattern.
IsAZ(c) == c \in LowerLetters

\* \b between s[i] and s[i+1] (i = 0 is the start, i = Len(s) the end):
\* exactly one of the two sides is a \w character.
Boundary(s, i) ==
    LET before == i >= 1 /\ IsWordChar(s[i])
        after  == i + 1 <= Len(s) /\ IsWordChar(s[i + 1])
    IN  before # after

\* The end of the longest run of [a-z] that starts at i (i - 1 if none).
RECURSIVE RunEnd(_, _)
RunEnd(s, i) == IF i <= Len(s) /\ IsAZ(s[i]) THEN RunEnd(s, i + 1) ELSE i - 1

\* Faulty variant of MatchWord: the pattern [a-z]+ without its two \b.
MatchWordUnanchored(s, i) == IF RunEnd(s, i) >= i THEN RunEnd(s, i) ELSE 0

\* One attempt of \b[a-z]+\b at position i: the end of the match, or 0.
\* [a-z]+ is greedy and gives characters back until the closing \b holds.
MatchWord(s, i) ==
    LET j    == RunEnd(s, i)
        ends == {k \in i..j : Boundary(s, k)}
    IN  IF Boundary(s, i - 1) /\ ends # {}
        THEN CHOOSE k \in ends : \A m \in ends : m <= k
        ELSE 0

\* re.findall(r'\b[a-z]+\b', s) scanning from position i.
RECURSIVE FindAllWords(_, _)
FindAllWords(s, i) ==
    IF i > Len(s) THEN <<>>
    ELSE LET e == MatchWord(s, i)
         IN  IF e = 0 THEN FindAllWords(s, i + 1)
             ELSE <<SubSeq(s, i, e)>> \o FindAllWords(s, e + 1)

\* Lines 74 and 91: the unfiltered token sequence.
all_words(t) == FindAllWords(LowerText(t), 1)

\* Line 37: entries of NLTK's English stopword list that the modelled texts
\* can spell.
stop_words ==
    {Str(<<"t", "h", "e">>), Str(<<"o", "n">>), Str(<<"t", "o">>),
     Str(<<"t", "o", "o">>)}

\* Faulty variant of KeepWord: len(w) >= 2 instead of len(w) > 2.
KeepWordOfTwo(w) == w \notin stop_words /\ Len(w) >= 2

\* Line 77.
KeepWord(w) == w \notin stop_words /\ Len(w) > 2

tokenize_and_clean(t) == SelectSeq(all_words(t), KeepWord)

\* len(re.findall(r'^\d{3}:\d{3}', text, re.MULTILINE)).
VerseCount(t) ==
    Cardinality({i \in 1..Len(t) : (i = 1 \/ t[i - 1] = Newline) /\ VerseAt(t, i)})

\* The number of binary digits of q.
RECURSIVE BitLen(_)
BitLen(q) == IF q = 0 THEN 0 ELSE 1 + BitLen(q \div 2)

\* Long division of r / b, 0 < r < b, up to its first binary digit 1: the
\* remainder after that digit.
RECURSIVE LeadingBit(_, _)
LeadingBit(r, b) == IF 2 * r >= b THEN 2 * r - b ELSE LeadingBit(2 * r, b)

\* m more binary digits of r / b: <<the remainder, the last digit>>.
RECURSIVE FractionBits(_, _, _, _)
FractionBits(r, b, m, last) ==
    IF m = 0 THEN <<r, last>>
    ELSE IF 2 * r >= b THEN FractionBits(2 * r - b, b, m - 1, 1)
    ELSE FractionBits(2 * r, b, m - 1, 0)

\* The float a / b, a > 0, against the rational a / b: 1 when the division
\* rounded up, -1 when it rounded down, 0 when the quotient is exact.  A
\* float keeps 53 binary digits and rounds to nearest, ties to even.
FloatError(a, b) ==
    LET q0   == a \div b
        rest == IF q0 > 0
                THEN FractionBits(a % b, b, 53 - BitLen(q0), q0 % 2)
                ELSE FractionBits(LeadingBit(a, b), b, 52, 1)
        r    == rest[1]
    IN  IF r = 0 THEN 0
        ELSE IF 2 * r > b THEN 1
        ELSE IF 2 * r < b THEN -1
        ELSE IF rest[2] = 1 THEN 1 ELSE -1

\* round(a / b, d) for 10^d = scale, a >= 0, as an integer number of 1/scale
\* units: the float a / b rounded to d decimals, half to even.  When a / b
\* lies halfway between two results the float, unless exact, lies on one
\* side of it.
Round(a, b, scale) ==
    LET q   == (a * scale) \div b
        r   == (a * scale) % b
        err == IF 2 * r = b THEN FloatError(a, b) ELSE 0
    IN  IF 2 * r > b THEN q + 1
        ELSE IF 2 * r < b THEN q
        ELSE IF err > 0 \/ (err = 0 /\ q % 2 = 1) THEN q + 1
        ELSE q

ToSet(s) == {s[i] : i \in DOMAIN s}

\* Faulty variant of calculate_style_metrics: the words are counted in the
\* filtered tokens instead of the unfiltered ones.
style_metrics_of_filtered(t, fw) ==
    LET verses       == VerseCount(t)
        total_words  == Len(fw)
        unique_words == Cardinality(ToSet(fw))
    IN  [total_words         |-> total_words,
         unique_words        |-> unique_words,
         lexical_diversity   |-> IF total_words > 0
                                 THEN Round(unique_words, total_words, 10000)
                                 ELSE 0,
         vocabulary_size     |-> unique_words,
         verse_count         |-> verses,
         avg_words_per_verse |-> IF verses > 0
                                 THEN Round(total_words, verses, 100)
                                 ELSE 0]

\* Lines 89-107.  lexical_diversity is in units of 1/10000 and
\* avg_words_per_verse in units of 1/100.
calculate_style_metrics(t, fw) ==
    LET aw           == all_words(t)
        verses       == VerseCount(t)
        total_words  == Len(aw)
        unique_words == Cardinality(ToSet(aw))
    IN  [total_words         |-> total_words,
         unique_words        |-> unique_words,
         lexical_diversity   |-> IF total_words > 0
                                 THEN Round(unique_words, total_words, 10000)
                                 ELSE 0,
         vocabulary_size     |-> unique_words,
         verse_count         |-> verses,
         avg_words_per_verse |-> IF verses > 0
                                 THEN Round(total_words, verses, 100)
                                 ELSE 0]

----------------------------------------------------------------------------
(* get_top_words and find_overlapping_words.                               *)

\* list.count(w).
Count(w, ws) == Cardinality({i \in DOMAIN ws : ws[i] = w})

\* The keys of Counter(ws), in insertion (first appearance) order.
RECURSIVE Distinct(_)
Distinct(ws) ==
    IF ws = <<>> THEN <<>>
    ELSE LET init == Distinct(SubSeq(ws, 1, Len(ws) - 1))
             w    == ws[Len(ws)]
         IN  IF w \in ToSet(init) THEN init ELSE Append(init, w)

\* Counter(ws).items().
Counter(ws) ==
    LET keys == Distinct(ws)
    IN  [i \in 1..Len(keys) |-> [word |-> keys[i], count |-> Count(keys[i], ws)]]

\* Faulty variant of StableSortDesc: a descending sort that puts an element
\* before the earlier elements of equal key.
RECURSIVE UnstableSortDesc(_, _)
UnstableSortDesc(s, key) ==
    IF s = <<>> THEN <<>>
    ELSE LET rest == UnstableSortDesc(SubSeq(s, 1, Len(s) - 1), key)
             x    == s[Len(s)]
             k    == Cardinality({i \in DOMAIN rest : rest[i][key] > x[key]})
         IN  SubSeq(rest, 1, k) \o <<x>> \o SubSeq(rest, k + 1, Len(rest))

\* sorted(s, key=lambda x: x[key], reverse=True): stable, so elements with
\* equal keys keep their order in s.
RECURSIVE StableSortDesc(_, _)
StableSortDesc(s, key) ==
    IF s = <<>> THEN <<>>
    ELSE LET rest == StableSortDesc(SubSeq(s, 1, Len(s) - 1), key)
             x    == s[Len(s)]
             k    == Cardinality({i \in DOMAIN rest : rest[i][key] >= x[key]})
         IN  SubSeq(rest, 1, k) \o <<x>> \o SubSeq(rest, k + 1, Len(rest))

\* Counter.most_common(m): heapq.nlargest(m, items, key=count), which equals
\* sorted(items, key=count, reverse=True)[:m].
most_common(items, m) == SliceTo(StableSortDesc(items, "count"), m)

\* Lines 109-112.
get_top_words(ws, m) == most_common(Counter(ws), m)

Names == <<"Matthew", "Mark", "Luke">>

\* Faulty variant of common_words: Luke's set is left out of the
\* intersection.
common_words_of_two(res) ==
    ToSet(res["Matthew"].all_words) \cap ToSet(res["Mark"].all_words)

\* Lines 148-153 over res[name].all_words.
common_words(res) ==
    ToSet(res["Matthew"].all_words) \cap ToSet(res["Mark"].all_words)
        \cap ToSet(res["Luke"].all_words)

\* Lines 158-168: the entry appended for one word.
OverlapEntry(res, word) ==
    LET matthew_count == Count(word, res["Matthew"].all_words)
        mark_count    == Count(word, res["Mark"].all_words)
        luke_count    == Count(word, res["Luke"].all_words)
    IN  [word    |-> word,
         matthew |-> matthew_count,
         mark    |-> mark_count,
         luke    |-> luke_count,
         total   |-> matthew_count + mark_count + luke_count]

\* The orders in which "for word in common_words" may visit a set: a set of
\* str has no specified iteration order (it follows the per-process hash seed).
IterationOrders(S) ==
    {p \in [1..Cardinality(S) -> S] : \A x \in S : \E i \in DOMAIN p : p[i] = x}

\* Lines 145-173, for one iteration order of common_words.
find_overlapping_words(res, order) ==
    StableSortDesc([i \in 1..Len(order) |-> OverlapEntry(res, order[i])], "total")

----------------------------------------------------------------------------
(* Specification SpecLoad: load_gospel applied to a file's text.           *)

Verse == Str(<<"0", "0", "1", ":", "0", "0", "1">>)

\* A verse prefix written with a digit of another script.
ArabicVerse ==
    <<ArabicThree, ArabicThree, ArabicThree>> \o Str(<<":", "0", "0", "1">>)

\* The pieces the file texts are concatenated from.
LoadPieces ==
    {start_marker, end_marker, <<Newline>>, <<CarriageReturn>>,
     <<ByteOrderMark>>, Verse, ArabicVerse, Str(<<"x">>), Str(<<"1">>)}

MaxPieces == 4

LoadTexts == {ConcatAll(ps) : ps \in SeqsUpTo(LoadPieces, MaxPieces)}

InitLoad ==
    /\ pc = "read"
    /\ text \in LoadTexts
    /\ trimmed = None /\ clean_text = None
    /\ words = None /\ filtered_words = None /\ style_metrics = None
    /\ n = None /\ top_words = None
    /\ results = None /\ overlap_data = None /\ overlap_rerun = None
    /\ files = None /\ dir_created = FALSE /\ file_created = FALSE /\ report = <<>>

\* Lines 43-69 on the characters of the file.
LoadGospel ==
    /\ pc = "read"
    /\ trimmed' = TrimMarkers(ReadText(text))
    /\ clean_text' = load_gospel(text)
    /\ pc' = "loaded"
    /\ UNCHANGED <<text, words, filtered_words, style_metrics, n, top_words,
                   results, overlap_data, overlap_rerun, files, dir_created,
                   report,
                   file_created>>

NextLoad == LoadGospel

SpecLoad == InitLoad /\ [][NextLoad]_vars

----------------------------------------------------------------------------
(* Specification SpecTok: tokenize_and_clean, calculate_style_metrics and  *)
(* get_top_words applied to a cleaned text, in the order of lines 122-134. *)

ScenarioText ==
    Str(<<"0", "0", "1", ":", "0", "0", "1", " ", "T", "h", "e", " ", "c", "a", "t",
      " ", "s", "a", "t", " ", "o", "n", " ", "t", "h", "e", " ", "m", "a", "t",
      ".", " ", "0", "0", "1", ":", "0", "0", "2", " ", "T", "h", "e", " ", "c",
      "a", "t", " ", "r", "a", "n", " ", "f", "a", "r", " ", "a", "w", "a", "y",
      ".">>)

TokPieces ==
    {Str(<<"t">>), Str(<<"T">>), Str(<<"_">>), Str(<<" ">>), <<Newline>>,
     Verse \o Str(<<" ">>), Str(<<"t", "o", "t">>), Str(<<"t", "o", "o">>)}

MaxTokPieces == 4

MaxN == 2

\* Pieces with letters and digits beyond ASCII.
UnicodePieces ==
    {<<Kelvin>>, <<CapitalIDot>>, <<CapitalSigma>>, <<ArabicThree>>,
     Str(<<"t">>), Str(<<" ">>), ArabicVerse \o <<Newline>>}

TokTexts ==
    {ConcatAll(ps) : ps \in SeqsUpTo(TokPieces, MaxTokPieces)}
        \cup {ConcatAll(ps) : ps \in SeqsUpTo(UnicodePieces, MaxTokPieces)}
        \cup {ScenarioText}

InitTok ==
    /\ pc = "cleaned"
    /\ text \in TokTexts
    /\ trimmed = None /\ clean_text = None
    /\ words = None /\ filtered_words = None /\ style_metrics = None
    /\ n = None /\ top_words = None
    /\ results = None /\ overlap_data = None /\ overlap_rerun = None
    /\ files = None /\ dir_created = FALSE /\ file_created = FALSE /\ report = <<>>

\* Lines 71-79.
TokenizeAndClean ==
    /\ pc = "cleaned"
    /\ words' = all_words(text)
    /\ filtered_words' = tokenize_and_clean(text)
    /\ pc' = "tokenized"
    /\ UNCHANGED <<text, trimmed, clean_text, style_metrics, n, top_words,
                   results, overlap_data, overlap_rerun, files, dir_created,
                   report,
                   file_created>>

\* Lines 89-107.
CalculateStyleMetrics ==
    /\ pc = "tokenized"
    /\ style_metrics' = calculate_style_metrics(text, filtered_words)
    /\ pc' = "measured"
    /\ UNCHANGED <<text, trimmed, clean_text, words, filtered_words, n,
                   top_words, results, overlap_data, overlap_rerun, files,
                   dir_created, report,
                   file_created>>

\* Lines 109-112 on the filtered tokens, for the n of line 131 and for the
\* n = 1 of the scenario.
GetTopWordsOfText ==
    /\ pc = "measured"
    /\ \E m \in {1, 20} :
          /\ n' = m
          /\ top_words' = get_top_words(filtered_words, m)
    /\ pc' = "ranked"
    /\ UNCHANGED <<text, trimmed, clean_text, words, filtered_words,
                   style_metrics, results, overlap_data, overlap_rerun, files,
                   dir_created, report,
                   file_created>>

NextTok == TokenizeAndClean \/ CalculateStyleMetrics \/ GetTopWordsOfText

SpecTok == InitTok /\ [][NextTok]_vars

----------------------------------------------------------------------------
(* Specification SpecTop: get_top_words applied to a token sequence.       *)

TopWords == {"god", "son", "man"}

MaxWords == 4

InitTop ==
    /\ pc = "tokens"
    /\ filtered_words \in SeqsUpTo(TopWords, MaxWords)
    /\ text = None /\ trimmed = None /\ clean_text = None
    /\ words = None /\ style_metrics = None
    /\ n = None /\ top_words = None
    /\ results = None /\ overlap_data = None /\ overlap_rerun = None
    /\ files = None /\ dir_created = FALSE /\ file_created = FALSE /\ report = <<>>

\* Lines 109-112.
GetTopWords ==
    /\ pc = "tokens"
    /\ \E m \in 0..MaxN :
          /\ n' = m
          /\ top_words' = get_top_words(filtered_words, m)
    /\ pc' = "ranked"
    /\ UNCHANGED <<text, trimmed, clean_text, words, filtered_words,
                   style_metrics, results, overlap_data, overlap_rerun, files,
                   dir_created, report,
                   file_created>>

NextTop == GetTopWords

SpecTop == InitTop /\ [][NextTop]_vars

----------------------------------------------------------------------------
(* Specification SpecOverlap: find_overlapping_words applied, twice, to    *)
(* three filtered token sequences.                                         *)

NameSet == {Names[i] : i \in DOMAIN Names}

OverlapWords == {"god", "son"}

MaxDocWords == 3

InitOverlap ==
    /\ pc = "analysed"
    /\ results \in [NameSet -> [all_words : SeqsUpTo(OverlapWords, MaxDocWords)]]
    /\ text = None /\ trimmed = None /\ clean_text = None
    /\ words = None /\ filtered_words = None /\ style_metrics = None
    /\ n = None /\ top_words = None
    /\ overlap_data = None /\ overlap_rerun = None
    /\ files = None /\ dir_created = FALSE /\ file_created = FALSE /\ report = <<>>

\* Lines 145-173.
FindOverlappingWords ==
    /\ pc = "analysed"
    /\ \E order \in IterationOrders(common_words(results)) :
          overlap_data' = find_overlapping_words(results, order)
    /\ pc' = "overlap"
    /\ UNCHANGED <<text, trimmed, clean_text, words, filtered_words,
                   style_metrics, n, top_words, results, overlap_rerun, files,
                   dir_created, report,
                   file_created>>

\* Lines 145-173 again: another run of the program on the same sequences.
FindOverlappingWordsAgain ==
    /\ pc = "overlap"
    /\ \E order \in IterationOrders(common_words(results)) :
          overlap_rerun' = find_overlapping_words(results, order)
    /\ pc' = "rerun"
    /\ UNCHANGED <<text, trimmed, clean_text, words, filtered_words,
                   style_metrics, n, top_words, results, overlap_data, files,
                   dir_created, report,
                   file_created>>

NextOverlap == FindOverlappingWords \/ FindOverlappingWordsAgain

SpecOverlap == InitOverlap /\ [][NextOverlap]_vars

----------------------------------------------------------------------------
(* Specification SpecRun: save_results, step by step, over three input     *)
(* files each of which may be missing or unreadable.                       *)

Tot == Str(<<"t", "o", "t">>)
Ott == Str(<<"o", "t", "t">>)
Too == Str(<<"t", "o", "o">>)

\* The texts of the readable input files.
RunTexts ==
    LET sp == Str(<<" ">>)
    IN  {ConcatAll(<<<<ByteOrderMark>>, start_marker, <<Newline>>, Verse, sp,
                     Tot, <<Newline>>, end_marker>>),
         ConcatAll(<<Verse, sp, Tot, sp, Tot, sp, Ott>>),
         ConcatAll(<<Verse, sp, Ott, sp, Tot, <<CarriageReturn, Newline>>,
                     Verse, sp, Too>>)}

MissingFile    == [status |-> "missing", content |-> <<>>]
UnreadableFile == [status |-> "unreadable", content |-> <<>>]

RunFiles ==
    {[status |-> "ok", content |-> t] : t \in RunTexts}
        \cup {MissingFile, UnreadableFile}

\* Faulty variant of Readable: a file that exists but cannot be read is
\* taken as an empty text.
ReadableIfPresent(f) == f.status # "missing"

\* Line 43: open() returns only for a file that exists and can be read;
\* otherwise it raises OSError.
Readable(f) == f.status = "ok"

\* round(x, d) for a float x = a / b of either sign.
SignedRound(a, b, scale) ==
    IF a < 0 THEN -Round(-a, b, scale) ELSE Round(a, b, scale)

\* TextBlob(text).sentiment, line 83: the library is outside the repository.
\* What it may do is to return a polarity in [-1, 1] and a subjectivity in
\* [0, 1], here in units of 1/100000, or to raise.
SentimentRaised == [raised |-> TRUE, polarity |-> 0, subjectivity |-> 0]

TextBlobOutcomes ==
    {[raised |-> FALSE, polarity |-> 12345, subjectivity |-> 50000],
     [raised |-> FALSE, polarity |-> -33335, subjectivity |-> 0],
     SentimentRaised}

\* Lines 81-87, in units of 1/10000.
analyze_sentiment(blob) ==
    [polarity     |-> SignedRound(blob.polarity, 100000, 10000),
     subjectivity |-> SignedRound(blob.subjectivity, 100000, 10000)]

\* Lines 114-143, given what TextBlob returns at line 125.
analyze_gospel(name, f, blob) ==
    LET t  == load_gospel(f.content)
        fw == tokenize_and_clean(t)
    IN  [name          |-> name,
         sentiment     |-> analyze_sentiment(blob),
         style_metrics |-> calculate_style_metrics(t, fw),
         top_words     |-> get_top_words(fw, 20),
         word_cloud    |-> get_top_words(fw, 50),
         all_words     |-> fw]

\* Lines 185-186: the record without its all_words.
WithoutAllWords(r) ==
    [name          |-> r.name,
     sentiment     |-> r.sentiment,
     style_metrics |-> r.style_metrics,
     top_words     |-> r.top_words,
     word_cloud    |-> r.word_cloud]

InitRun ==
    /\ pc = "start"
    /\ files \in [NameSet -> RunFiles]
    /\ results = <<>>
    /\ dir_created = FALSE
    /\ file_created = FALSE
    /\ report = <<>>
    /\ overlap_data = None /\ overlap_rerun = None
    /\ text = None /\ trimmed = None /\ clean_text = None
    /\ words = None /\ filtered_words = None /\ style_metrics = None
    /\ n = None /\ top_words = None

\* Lines 204-205.
MakeOutputDir ==
    /\ pc = "start"
    /\ dir_created' = TRUE
    /\ pc' = "analyze"
    /\ UNCHANGED <<text, trimmed, clean_text, words, filtered_words,
                   style_metrics, n, top_words, results, overlap_data,
                   overlap_rerun, files, report,
                   file_created>>

\* Lines 178-179: one iteration of the loop of run_analysis.  An OSError of
\* open(), or an exception of TextBlob, is caught nowhere and ends
\* save_results.
AnalyzeGospel ==
    /\ pc = "analyze"
    /\ LET k    == Cardinality(DOMAIN results) + 1
           name == Names[k]
       IN  IF Readable(files[name])
           THEN \E blob \in TextBlobOutcomes :
                   IF blob.raised
                   THEN /\ results' = results
                        /\ pc' = "aborted"
                   ELSE /\ results' = [x \in DOMAIN results \cup {name} |->
                                         IF x = name
                                         THEN analyze_gospel(name, files[name], blob)
                                         ELSE results[x]]
                        /\ pc' = IF k = Len(Names) THEN "overlap" ELSE "analyze"
           ELSE /\ results' = results
                /\ pc' = "aborted"
    /\ UNCHANGED <<text, trimmed, clean_text, words, filtered_words,
                   style_metrics, n, top_words, overlap_data, overlap_rerun,
                   files, dir_created, report,
                   file_created>>

\* Lines 181-200.
AssembleOutput ==
    /\ pc = "overlap"
    /\ \E order \in IterationOrders(common_words(results)) :
          overlap_data' = find_overlapping_words(results, order)
    /\ results' = [x \in DOMAIN results |-> WithoutAllWords(results[x])]
    /\ pc' = "write"
    /\ UNCHANGED <<text, trimmed, clean_text, words, filtered_words,
                   style_metrics, n, top_words, overlap_rerun, files,
                   dir_created, report,
                   file_created>>

\* Lines 189-198: the document run_analysis returns.
Output(res, overlapping_words) ==
    [gospels           |-> res,
     overlapping_words |-> overlapping_words,
     metadata          |->
         [total_overlapping_words |-> Len(overlapping_words),
          analysis_type           |-> "whole_gospel_level",
          sentiment_tool          |-> "TextBlob",
          source |-> "Weymouth New Testament in Modern Speech (1913)"]]

\* Line 211: open(output_file, 'w') creates the file, or empties it.
OpenOutput ==
    /\ pc = "write"
    /\ file_created' = TRUE
    /\ report' = <<>>
    /\ pc' = "dump"
    /\ UNCHANGED <<text, trimmed, clean_text, words, filtered_words,
                   style_metrics, n, top_words, results, overlap_data,
                   overlap_rerun, files, dir_created>>

\* Lines 212-217: json.dump writes the document.
DumpOutput ==
    /\ pc = "dump"
    /\ report' = <<Output(results, overlap_data)>>
    /\ pc' = "done"
    /\ UNCHANGED <<text, trimmed, clean_text, words, filtered_words,
                   style_metrics, n, top_words, results, overlap_data,
                   overlap_rerun, files, dir_created, file_created>>

NextRun ==
    MakeOutputDir \/ AnalyzeGospel \/ AssembleOutput \/ OpenOutput \/ DumpOutput

SpecRun == InitRun /\ [][NextRun]_vars

----------------------------------------------------------------------------
(* Properties of load_gospel (specification SpecLoad).                     *)

\* The text between the markers: from the first start marker (or the start
\* of the text) up to, not including, the first end marker of the text (or
\* the end of the text).
BetweenMarkers(t) ==
    LET s  == Find(t, start_marker)
        e  == Find(t, end_marker)
        lo == IF s = -1 THEN 0 ELSE s
        hi == IF e = -1 THEN Len(t) ELSE e
    IN  SubSeq(t, lo + 1, hi)

\* C1: the marker trimming keeps exactly the text between the markers: it
\* begins at the first start marker when there is one, and nothing at or
\* after the first end marker of the file is kept.
C1_TrimKeepsTextBetweenMarkers ==
    pc = "loaded" => trimmed = BetweenMarkers(ReadText(text))

\* The lines of t from its first verse line on, or t itself when no line
\* starts with three digits, a colon and three digits.
FromFirstVerse(t) ==
    LET lines  == Split(t)
        verses == {i \in DOMAIN lines : VerseAt(lines[i], 1)}
    IN  IF verses = {} THEN t
        ELSE Join(SubSeq(lines, MinOf(verses), Len(lines)))

\* C2: header stripping drops the lines before the first verse line and
\* keeps the rest; with no verse line the marker-trimmed text is returned
\* as it is.
C2_HeaderStripKeepsTextWithoutVerse ==
    pc = "loaded" => clean_text = FromFirstVerse(trimmed)

----------------------------------------------------------------------------
(* Properties of the tokenizer and the metrics (specification SpecTok).    *)

\* The maximal runs <<i, j>> of characters of the class C in s: i starts a
\* run, j ends one, and every character from i to j is in C.
MaximalRuns(s, C(_)) ==
    LET starts == {i \in DOMAIN s : C(s[i]) /\ (i = 1 \/ ~C(s[i - 1]))}
        ends   == {j \in DOMAIN s : C(s[j]) /\ (j = Len(s) \/ ~C(s[j + 1]))}
    IN  {r \in starts \X ends :
            r[1] <= r[2] /\ \A k \in r[1]..r[2] : C(s[k])}

\* The substrings of s at the runs R, from left to right.
RunsInOrder(s, R) ==
    [k \in 1..Cardinality(R) |->
        LET r == CHOOSE r \in R : Cardinality({q \in R : q[1] < r[1]}) = k - 1
        IN  SubSeq(s, r[1], r[2])]

\* The maximal runs of letters a-z of s.
AlphaRuns(s) == MaximalRuns(s, IsAZ)

\* The maximal runs of word characters (letters and numeric characters of
\* any script, and the underscore) of s that hold only letters a-z.
PureWordRuns(s) ==
    {r \in MaximalRuns(s, IsWordChar) : \A k \in r[1]..r[2] : s[k] \in LowerLetters}

\* C8 as stated: the unfiltered tokens are all the maximal runs of
\* alphabetic characters of the lowercased text, in order, also those next
\* to a digit or an underscore.
C8_TokensAreAllAlphabeticRuns ==
    pc \in {"tokenized", "measured", "ranked"} =>
        words = RunsInOrder(LowerText(text), AlphaRuns(LowerText(text)))

\* C8 as amended: the unfiltered tokens are, in order, the maximal runs of
\* word characters (letters and numeric characters of any script, and the
\* underscore) of the lowercased text that consist of letters a-z only; a
\* run of letters next to a digit, an underscore or a letter outside a-z
\* gives no token, and no token holds a non-alphabetic character.
C8_TokensAreWordBoundedRuns ==
    pc \in {"tokenized", "measured", "ranked"} =>
        /\ words = RunsInOrder(LowerText(text), PureWordRuns(LowerText(text)))
        /\ \A i \in DOMAIN words : \A k \in DOMAIN words[i] :
              words[i][k] \in LowerLetters

\* C8 witness: a tokenized text in which a run of letters touches a digit or
\* an underscore and is dropped, while another run is kept.
C8_Witness ==
    /\ pc = "tokenized"
    /\ words # <<>>
    /\ Cardinality(AlphaRuns(LowerText(text))) > Len(words)

\* The positions of ws whose token is longer than 2 and no stopword.
Survivors(ws) == {i \in DOMAIN ws : Len(ws[i]) > 2 /\ ws[i] \notin stop_words}

\* C4: the filtered tokens hold no token of length <= 2 and no stopword, and
\* are exactly the surviving tokens of the unfiltered sequence, in their
\* order and with their repetitions.
C4_FilteredIsSurvivingSubsequence ==
    pc \in {"tokenized", "measured", "ranked"} =>
        /\ \A i \in DOMAIN filtered_words :
              /\ Len(filtered_words[i]) > 2
              /\ filtered_words[i] \notin stop_words
        /\ Len(filtered_words) = Cardinality(Survivors(words))
        /\ \A k \in DOMAIN filtered_words :
              \E i \in Survivors(words) :
                 /\ Cardinality({j \in Survivors(words) : j < i}) = k - 1
                 /\ filtered_words[k] = words[i]

\* C4 witness: a short text whose first token is a stopword of three
\* letters, which is dropped, followed by a token that is kept.
C4_Witness ==
    /\ pc = "tokenized"
    /\ text # ScenarioText
    /\ Len(words) = 2
    /\ words[1] \in stop_words /\ Len(words[1]) > 2
    /\ filtered_words = <<words[2]>>

\* C6: no division by zero; lexical_diversity is 0 for no words and the
\* rounded unique/total otherwise; avg_words_per_verse is 0 for no verses
\* and the rounded total/verses otherwise; total_words and unique_words are
\* the length and the distinct count of the unfiltered tokens, so that
\* unique_words <= total_words and vocabulary_size = unique_words.
C6_MetricsGuardedAndUnfiltered ==
    pc \in {"measured", "ranked"} =>
        LET m == style_metrics
        IN  /\ m.total_words = Len(words)
            /\ m.unique_words = Cardinality(ToSet(words))
            /\ m.verse_count = VerseCount(text)
            /\ m.unique_words <= m.total_words
            /\ m.vocabulary_size = m.unique_words
            /\ m.total_words = 0 => m.lexical_diversity = 0
            /\ m.total_words > 0 =>
                  LET d == m.lexical_diversity * m.total_words
                             - 10000 * m.unique_words
                  IN  -m.total_words <= 2 * d /\ 2 * d <= m.total_words
            /\ m.verse_count = 0 => m.avg_words_per_verse = 0
            /\ m.verse_count > 0 =>
                  LET d == m.avg_words_per_verse * m.verse_count
                             - 100 * m.total_words
                  IN  -m.verse_count <= 2 * d /\ 2 * d <= m.verse_count

\* C6 witness: metrics of a text with verses, with stopwords or short tokens
\* among its words, and with a repeated word.
C6_Witness ==
    /\ pc = "measured"
    /\ text # ScenarioText
    /\ style_metrics.verse_count > 0
    /\ style_metrics.total_words > Len(filtered_words)
    /\ style_metrics.unique_words < style_metrics.total_words
    /\ style_metrics.avg_words_per_verse > 0

Cat  == Str(<<"c", "a", "t">>)
Sat  == Str(<<"s", "a", "t">>)
Mat  == Str(<<"m", "a", "t">>)
Ran  == Str(<<"r", "a", "n">>)
Far  == Str(<<"f", "a", "r">>)
Away == Str(<<"a", "w", "a", "y">>)

\* C10 as stated: for the scenario text the filtered tokens are cat sat mat
\* cat ran far away, total_words is 12, verse_count is 2 and the top word
\* for N = 1 is cat with count 2.
C10_ScenarioAsStated ==
    (pc = "ranked" /\ text = ScenarioText /\ n = 1) =>
        /\ filtered_words = <<Cat, Sat, Mat, Cat, Ran, Far, Away>>
        /\ style_metrics.total_words = 12
        /\ style_metrics.verse_count = 2
        /\ top_words = <<[word |-> Cat, count |-> 2]>>

\* C10 as amended: for the scenario text (one line) the filtered tokens are
\* cat sat mat cat ran far away, total_words is 11, verse_count is 1 and the
\* top word for N = 1 is cat with count 2.
C10_ScenarioAmended ==
    (pc = "ranked" /\ text = ScenarioText /\ n = 1) =>
        /\ filtered_words = <<Cat, Sat, Mat, Cat, Ran, Far, Away>>
        /\ style_metrics.total_words = 11
        /\ style_metrics.verse_count = 1
        /\ top_words = <<[word |-> Cat, count |-> 2]>>

\* C10 witness: the scenario text tokenized, measured and ranked with N = 1.
C10_Witness == pc = "ranked" /\ text = ScenarioText /\ n = 1

----------------------------------------------------------------------------
(* Properties of get_top_words (specification SpecTop).                    *)

\* The number of positions of ws that hold w.
Occurrences(w, ws) == Len(SelectSeq(ws, LAMBDA x : x = w))

\* The first position of ws that holds w.
FirstSeen(w, ws) == MinOf({i \in DOMAIN ws : ws[i] = w})

\* C5: get_top_words returns min(N, distinct tokens) entries, each a distinct
\* token with its exact count, sorted non-increasing by count; no token left
\* out has a higher count than one returned; equal counts appear in order of
\* first appearance, and a tie cut by N keeps the tokens seen first.
C5_TopWordsRankedStable ==
    pc = "ranked" =>
        LET ws       == filtered_words
            distinct == ToSet(ws)
            returned == {top_words[i].word : i \in DOMAIN top_words}
            bound    == IF n < Cardinality(distinct) THEN n ELSE Cardinality(distinct)
        IN  /\ Len(top_words) = bound
            /\ \A i \in DOMAIN top_words :
                  /\ top_words[i].word \in distinct
                  /\ top_words[i].count = Occurrences(top_words[i].word, ws)
            /\ \A i, j \in DOMAIN top_words :
                  i < j =>
                     /\ top_words[i].word # top_words[j].word
                     /\ top_words[i].count >= top_words[j].count
                     /\ top_words[i].count = top_words[j].count =>
                           FirstSeen(top_words[i].word, ws)
                              < FirstSeen(top_words[j].word, ws)
            /\ \A w \in distinct \ returned : \A i \in DOMAIN top_words :
                  /\ Occurrences(w, ws) <= top_words[i].count
                  /\ Occurrences(w, ws) = top_words[i].count =>
                        FirstSeen(top_words[i].word, ws) < FirstSeen(w, ws)

\* C5 witness: a ranking cut by N in the middle of a tie, whose kept token
\* is not the first token of the sequence.
C5_Witness ==
    /\ pc = "ranked"
    /\ n >= 1
    /\ Len(top_words) = n
    /\ top_words[1].word # filtered_words[1]
    /\ \E w \in ToSet(filtered_words) \ {top_words[i].word : i \in DOMAIN top_words} :
          Occurrences(w, filtered_words) = top_words[n].count

----------------------------------------------------------------------------
(* Properties of find_overlapping_words (specification SpecOverlap).       *)

\* C3: the overlap list has exactly one entry per word of the intersection
\* of the three distinct-token sets; the matthew, mark and luke fields are
\* the word's occurrences in each full sequence (at least 1 each) and total
\* is their sum.
C3_OverlapIsIntersectionWithCounts ==
    pc \in {"overlap", "rerun"} =>
        LET mt == results["Matthew"].all_words
            mk == results["Mark"].all_words
            lk == results["Luke"].all_words
            inter == {w \in ToSet(mt) : w \in ToSet(mk) /\ w \in ToSet(lk)}
        IN  /\ {overlap_data[i].word : i \in DOMAIN overlap_data} = inter
            /\ Len(overlap_data) = Cardinality(inter)
            /\ \A i \in DOMAIN overlap_data :
                  LET e == overlap_data[i]
                  IN  /\ e.matthew = Occurrences(e.word, mt) /\ e.matthew >= 1
                      /\ e.mark = Occurrences(e.word, mk) /\ e.mark >= 1
                      /\ e.luke = Occurrences(e.word, lk) /\ e.luke >= 1
                      /\ e.total = e.matthew + e.mark + e.luke

\* C3 witness: one common word with different counts in the documents, and
\* another word that two of the documents have and the third has not.
C3_Witness ==
    /\ pc = "overlap"
    /\ Len(overlap_data) = 1
    /\ overlap_data[1].matthew > overlap_data[1].mark
    /\ overlap_data[1].total >= 4
    /\ \E w \in OverlapWords :
          /\ w # overlap_data[1].word
          /\ w \in ToSet(results["Matthew"].all_words)
          /\ w \in ToSet(results["Mark"].all_words)

\* C9: the overlap list is sorted non-increasing by total, and two runs on
\* the same three sequences give the same list, ties included.
C9_OverlapSortedAndDeterministic ==
    pc = "rerun" =>
        /\ \A i, j \in DOMAIN overlap_data :
              i < j => overlap_data[i].total >= overlap_data[j].total
        /\ overlap_rerun = overlap_data

----------------------------------------------------------------------------
(* Properties of save_results (specification SpecRun).                     *)

\* The positions in Names of the input files that cannot be read.
Unreadable == {k \in DOMAIN Names : files[Names[k]].status # "ok"}

\* C7: with an input file missing or unreadable save_results ends in an
\* error and the report file is neither created nor written, whichever file
\* it is and however many documents were analysed before it; the report is
\* created and written only after the three documents and the overlap step
\* are done.
C7_NoReportUnlessAllInputsRead ==
    /\ Unreadable # {} =>
          /\ ~file_created /\ report = <<>>
          /\ pc \in {"start", "analyze", "aborted"}
          /\ Cardinality(DOMAIN results) < MinOf(Unreadable)
    /\ pc = "aborted" => ~file_created /\ report = <<>>
    /\ (file_created \/ report # <<>>) =>
          /\ pc \in {"dump", "done"}
          /\ Unreadable = {}
          /\ DOMAIN results = NameSet
    /\ report # <<>> =>
          /\ pc = "done"
          /\ DOMAIN report[1].gospels = NameSet
          /\ report[1].overlapping_words = overlap_data

\* C7 witness: the run has ended in an error at the third file, which is
\* not readable, after two documents were analysed and the output directory
\* was made; no report file.
C7_Witness ==
    /\ pc = "aborted"
    /\ dir_created
    /\ DOMAIN results = {"Matthew", "Mark"}
    /\ ~Readable(files["Luke"])
    /\ ~file_created /\ report = <<>>

====
